---- MODULE Spec2Model ----
(***************************************************************************)
(* Model of the CIBF post-processor (src/main.py): the phone normaliser,   *)
(* the conversation tag normaliser and the /process pipeline (identity     *)
(* resolution, analytics upsert, history append) over a document store.    *)
(*                                                                         *)
(* Text values are sequences of one-character strings, so that the string  *)
(* operations of the source (strip, lower, split, startswith, the regular  *)
(* expressions) are computed character by character.                       *)
(***************************************************************************)
EXTENDS Integers, Sequences, FiniteSets, TLC

(***************************************************************************)
(* Bounds of the model.                                                    *)
(***************************************************************************)
MaxPhoneLen == 12
MaxPieces == 4
MaxRequests == 2

(***************************************************************************)
(* Characters and the str methods the source uses.                         *)
(***************************************************************************)
Digits == {"0", "1", "2", "3", "4", "5", "6", "7", "8", "9"}

Whitespace == {" ", "\t", "\n"}

UpperLetters == <<"A", "B", "C", "D", "E", "F", "G", "H", "I", "J", "K", "L", "M",
                  "N", "O", "P", "Q", "R", "S", "T", "U", "V", "W", "X", "Y", "Z">>

LowerLetters == <<"a", "b", "c", "d", "e", "f", "g", "h", "i", "j", "k", "l", "m",
                  "n", "o", "p", "q", "r", "s", "t", "u", "v", "w", "x", "y", "z">>

Min(S) == CHOOSE m \in S : \A n \in S : m <= n

Max(S) == CHOOSE m \in S : \A n \in S : m >= n

\* str.isdigit for one character
IsDigit(c) == c \in Digits

\* str.lower for one character
LowerChar(c) ==
    IF \E i \in 1..26 : UpperLetters[i] = c
    THEN LowerLetters[CHOOSE i \in 1..26 : UpperLetters[i] = c]
    ELSE c

\* str.lower
Lower(s) == [i \in 1..Len(s) |-> LowerChar(s[i])]

\* str.upper for one character
UpperChar(c) ==
    IF \E i \in 1..26 : LowerLetters[i] = c
    THEN UpperLetters[CHOOSE i \in 1..26 : LowerLetters[i] = c]
    ELSE c

\* str.upper
Upper(s) == [i \in 1..Len(s) |-> UpperChar(s[i])]

\* str.lstrip(chars)
LStripChars(s, chars) ==
    LET keep == {i \in 1..Len(s) : s[i] \notin chars}
    IN  IF keep = {} THEN << >> ELSE SubSeq(s, Min(keep), Len(s))

\* str.rstrip(chars)
RStripChars(s, chars) ==
    LET keep == {i \in 1..Len(s) : s[i] \notin chars}
    IN  IF keep = {} THEN << >> ELSE SubSeq(s, 1, Max(keep))

\* str.strip(chars)
StripChars(s, chars) == LStripChars(RStripChars(s, chars), chars)

\* str.strip()
Strip(s) == StripChars(s, Whitespace)

\* ''.join(filter(pred, s)) for the predicate "character in keepSet"
RECURSIVE FilterChars(_, _)
FilterChars(s, keepSet) ==
    IF s = << >> THEN << >>
    ELSE IF Head(s) \in keepSet
         THEN <<Head(s)>> \o FilterChars(Tail(s), keepSet)
         ELSE FilterChars(Tail(s), keepSet)

\* s.startswith(w)
StartsWith(s, w) == Len(s) >= Len(w) /\ SubSeq(s, 1, Len(w)) = w

\* str.zfill(width)
RECURSIVE ZFill(_, _)
ZFill(s, width) == IF Len(s) >= width THEN s ELSE ZFill(<<"0">> \o s, width)

\* str.split(sep) for a one-character separator: the list of fields
RECURSIVE SplitOn(_, _)
SplitOn(s, sep) ==
    LET at == {i \in 1..Len(s) : s[i] = sep}
    IN  IF at = {} THEN <<s>>
        ELSE <<SubSeq(s, 1, Min(at) - 1)>> \o SplitOn(SubSeq(s, Min(at) + 1, Len(s)), sep)

\* sep.join(list) for a one-character separator
RECURSIVE JoinWith(_, _)
JoinWith(list, sep) ==
    IF list = << >> THEN << >>
    ELSE IF Len(list) = 1 THEN list[1]
         ELSE list[1] \o <<sep>> \o JoinWith(Tail(list), sep)

(***************************************************************************)
(* normalize_phone_number (src/main.py 62-80).                             *)
(***************************************************************************)
normalize_phone_number(phone_number) ==
    LET digits_only == FilterChars(phone_number, Digits)
    IN  IF StartsWith(digits_only, <<"9", "1">>) /\ Len(digits_only) > 10
        THEN SubSeq(digits_only, 3, Len(digits_only))
        ELSE IF Len(digits_only) > 10
             THEN SubSeq(digits_only, Len(digits_only) - 9, Len(digits_only))
             ELSE IF Len(digits_only) < 10
                  THEN ZFill(digits_only, 10)
                  ELSE digits_only

(***************************************************************************)
(* normalize_conversation_tags (src/main.py 83-113).                       *)
(* The two regular expressions are matched as re.match matches them: the   *)
(* alternatives of the agent pattern are tried in order, a whitespace run *)
(* is greedy and group 1 is what follows the whitespace after the colon.   *)
(***************************************************************************)
Natalie == <<"N", "a", "t", "a", "l", "i", "e">>

Agent == <<"A", "g", "e", "n", "t">>

User == <<"U", "s", "e", "r">>

AgentTag == <<"A", "g", "e", "n", "t", ":", " ">>

UserTag == <<"U", "s", "e", "r", ":", " ">>

\* the literal w matches line at position i, ignoring case (re.IGNORECASE)
MatchesAt(line, i, w) ==
    /\ i + Len(w) - 1 <= Len(line)
    /\ Lower(SubSeq(line, i, i + Len(w) - 1)) = Lower(w)

\* a greedy whitespace run from position i: the first position after it
SkipSpaces(line, i) ==
    Min({j \in i..(Len(line) + 1) : j = Len(line) + 1 \/ line[j] \notin Whitespace})

\* (mutant) the whitespace after the colon is left in group 1
TagTailKeepSpace(line, i) ==
    LET j == SkipSpaces(line, i)
    IN  IF j <= Len(line) /\ line[j] = ":" THEN j + 1 ELSE 0

\* whitespace, colon, whitespace, group 1, from position i: where group 1 starts, 0 if no match
TagTail(line, i) ==
    LET j == SkipSpaces(line, i)
    IN  IF j <= Len(line) /\ line[j] = ":" THEN SkipSpaces(line, j + 1) ELSE 0

\* first alternative, Natalie (Agent): the position after the alternative, 0 if no match
AltNameAgent(line) ==
    IF MatchesAt(line, 1, Natalie)
    THEN LET k == SkipSpaces(line, Len(Natalie) + 1)
         IN  IF MatchesAt(line, k, <<"(">> \o Agent \o <<")">>)
             THEN k + Len(Agent) + 2 ELSE 0
    ELSE 0

\* second alternative, Agent (anything but a closing parenthesis): the position after the alternative, 0 if no match
AltAgentParen(line) ==
    IF MatchesAt(line, 1, Agent)
    THEN LET k == SkipSpaces(line, Len(Agent) + 1)
         IN  IF k <= Len(line) /\ line[k] = "("
             THEN LET close == {m \in (k + 1)..Len(line) : line[m] = ")"}
                  IN  IF close = {} THEN 0 ELSE Min(close) + 1
             ELSE 0
    ELSE 0

\* third alternative, Natalie
AltName(line) == IF MatchesAt(line, 1, Natalie) THEN Len(Natalie) + 1 ELSE 0

\* fourth alternative, Agent
AltAgent(line) == IF MatchesAt(line, 1, Agent) THEN Len(Agent) + 1 ELSE 0

\* the alternatives of agent_pattern, in the order the regex tries them
AgentAlternatives(line) ==
    <<AltNameAgent(line), AltAgentParen(line), AltName(line), AltAgent(line)>>

\* re.match(agent_pattern, line, re.IGNORECASE): where group(1) starts, 0 if no match
agent_match(line) ==
    LET alts == AgentAlternatives(line)
        ok == {a \in 1..Len(alts) : alts[a] # 0 /\ TagTail(line, alts[a]) # 0}
    IN  IF ok = {} THEN 0 ELSE TagTail(line, alts[Min(ok)])

\* re.match(user_pattern, line, re.IGNORECASE): where group(1) starts, 0 if no match
user_match(line) ==
    IF MatchesAt(line, 1, User) THEN TagTail(line, Len(User) + 1) ELSE 0

\* (mutant) the agent pattern without the parenthesised alternatives
normalize_line_no_paren(line) ==
    LET a == IF AltName(line) # 0 /\ TagTail(line, AltName(line)) # 0
             THEN TagTail(line, AltName(line))
             ELSE IF AltAgent(line) # 0 THEN TagTail(line, AltAgent(line)) ELSE 0
    IN  IF a # 0
        THEN AgentTag \o SubSeq(line, a, Len(line))
        ELSE IF user_match(line) # 0
             THEN UserTag \o SubSeq(line, user_match(line), Len(line))
             ELSE line

\* lines 91-111: the body of the loop over the lines
normalize_line(line) ==
    IF agent_match(line) # 0
    THEN AgentTag \o SubSeq(line, agent_match(line), Len(line))
    ELSE IF user_match(line) # 0
         THEN UserTag \o SubSeq(line, user_match(line), Len(line))
         ELSE line

normalize_conversation_tags(conversation) ==
    LET lines == SplitOn(conversation, "\n")
        normalized_lines == [i \in 1..Len(lines) |-> normalize_line(lines[i])]
    IN  JoinWith(normalized_lines, "\n")

(***************************************************************************)
(* Values of the pipeline.  None is Python's None, Raises stands for a     *)
(* gateway call that raised, NoDoc for "no document" (find_one returning   *)
(* None, a function returning None).  A document is a function from field  *)
(* names to values; ObjectIds are positive integers.                       *)
(***************************************************************************)
None == <<"<None>">>

Raises == <<"<raises>">>

\* the same for a gateway call whose reply is a JSON object (or the reply
\* was not valid JSON)
Raised == [raised |-> TRUE]

NoDoc == << >>

NOT_FOUND == <<"N", "O", "T", "_", "F", "O", "U", "N", "D">>

English == <<"e", "n", "g", "l", "i", "s", "h">>

TOFU == <<"T", "O", "F", "U">>

\* truthiness of an optional string
Truthy(s) == s # None /\ s # << >>

\* c in s
Contains(s, c) == \E i \in 1..Len(s) : s[i] = c

\* dict.get(key, default)
Get(doc, key, default) == IF key \in DOMAIN doc THEN doc[key] ELSE default

\* str(ObjectId)
ObjectIdStr(id) == <<"oid", id>>

\* f"91{phone_number}"
phone_db_format(phone_number) == <<"9", "1">> \o phone_number

(***************************************************************************)
(* The gateway functions, as functions of the gateway's reply.             *)
(***************************************************************************)
\* (mutant) extract_phone_number without the length check of line 206
extract_phone_number_unchecked(reply) ==
    IF reply = Raises THEN None
    ELSE LET phone_number == Strip(reply)
         IN  IF phone_number = NOT_FOUND \/ phone_number = << >> THEN None
             ELSE normalize_phone_number(phone_number)

extract_phone_number(reply) ==
    IF reply = Raises THEN None
    ELSE LET phone_number == Strip(reply)
         IN  IF phone_number = NOT_FOUND \/ phone_number = << >> THEN None
             ELSE LET normalizedPhone == normalize_phone_number(phone_number)
                  IN  IF Len(normalizedPhone) # 10 THEN None ELSE normalizedPhone

extract_email(reply) ==
    IF reply = Raises THEN None
    ELSE LET email0 == Strip(reply)
         IN  IF email0 = NOT_FOUND \/ email0 = << >> THEN None
             ELSE LET email1 == StripChars(StripChars(Strip(Lower(email0)), {"\""}), {"'"})
                      email == RStripChars(email1, {".", ",", ";", ":", "!", "?"})
                      parts == SplitOn(email, "@")
                  IN  IF ~Contains(email, "@") \/ ~Contains(parts[2], ".") THEN None
                      ELSE IF Len(parts) # 2 \/ parts[1] = << >> \/ parts[2] = << >> THEN None
                           ELSE email

\* (mutant) a failed call yields no language at all
detect_languages_no_default(reply) ==
    IF reply = Raised THEN {}
    ELSE LET list == Get(reply, "languages", << >>)
             languages == {Strip(Lower(list[i])) :
                              i \in {j \in 1..Len(list) : list[j] # << >> /\ Strip(list[j]) # << >>}}
         IN  IF languages = {} THEN {English} ELSE languages

\* the languages are a sorted list without duplicates: modelled as a set
detect_languages(reply) ==
    IF reply = Raised THEN {English}
    ELSE LET list == Get(reply, "languages", << >>)
             languages == {Strip(Lower(list[i])) :
                              i \in {j \in 1..Len(list) : list[j] # << >> /\ Strip(list[j]) # << >>}}
         IN  IF languages = {} THEN {English} ELSE languages

\* JSON values of the gateway's json_object replies
JStr(s) == [t |-> "str", v |-> s]

JBool(b) == [t |-> "bool", v |-> b]

JNull == [t |-> "null"]

detect_follow_up(reply) ==
    IF reply = Raised THEN FALSE
    ELSE LET follow_up == Get(reply, "follow_up", JBool(FALSE))
         IN  IF follow_up.t = "str"
             THEN Lower(follow_up.v) \in {<<"t", "r", "u", "e">>, <<"y", "e", "s">>, <<"1">>}
             ELSE IF follow_up.t = "bool" THEN follow_up.v ELSE FALSE

\* generate_analytics: NoDoc when the analytics call raised
generate_analytics(reply, follow_up_reply, user_id) ==
    IF reply = Raised THEN NoDoc
    ELSE LET c == Get(reply, "country", JNull)
             country == IF c.t = "str" THEN c.v ELSE << >>
             il == Get(reply, "intent_level", JNull)
             intent_level == IF il.t = "str" /\ il.v # << >> THEN Upper(il.v) ELSE TOFU
         IN  [user_id |-> user_id, country |-> country, intent_level |-> intent_level,
              follow_up |-> detect_follow_up(follow_up_reply)]

\* lines 387-403 of create_user_from_conversation: the email to use
extracted_email_of(email, user_data) ==
    LET e == IF Truthy(email) THEN email
             ELSE LET h == Get(user_data, "email", JStr(<< >>))
                  IN  IF h.t = "str" THEN h.v ELSE None
    IN  IF Truthy(e) THEN Strip(Lower(e)) ELSE e

\* lines 394-403: the user document
user_doc_of(phone_number, email, user_data) ==
    LET n == Get(user_data, "name", JStr(<< >>))
        base == [name |-> IF n.t = "str" THEN n.v ELSE None,
                 email |-> extracted_email_of(email, user_data)]
    IN  IF Truthy(phone_number)
        THEN [f \in {"name", "email", "phone_number"} |->
                 IF f = "phone_number" THEN phone_db_format(phone_number) ELSE base[f]]
        ELSE base

(***************************************************************************)
(* The document store: a collection is the sequence of its documents in    *)
(* insertion order.                                                        *)
(***************************************************************************)
Matching(collection, field, value) ==
    {i \in 1..Len(collection) : field \in DOMAIN collection[i] /\ collection[i][field] = value}

\* collection.find_one({field: value})
find_one(collection, field, value) ==
    IF Matching(collection, field, value) = {} THEN NoDoc
    ELSE collection[Min(Matching(collection, field, value))]

\* the document with _id set, as insert_one stores it
WithId(doc, id) == [f \in DOMAIN doc \cup {"_id"} |-> IF f = "_id" THEN id ELSE doc[f]]

\* collection.insert_one(doc)
insert_one(collection, doc, id) == Append(collection, WithId(doc, id))

\* (mutant) the document is replaced by the fields, under its identifier
SetFieldsReplace(doc, fields) == WithId(fields, doc._id)

\* {"$set": fields} applied to a document
SetFields(doc, fields) ==
    [f \in DOMAIN doc \cup DOMAIN fields |-> IF f \in DOMAIN fields THEN fields[f] ELSE doc[f]]

\* (mutant) update_one whose filter matches no document
update_one_no_match(collection, field, value, fields) == collection

\* collection.update_one({field: value}, {"$set": fields})
update_one(collection, field, value, fields) ==
    IF Matching(collection, field, value) = {} THEN collection
    ELSE [collection EXCEPT ![Min(Matching(collection, field, value))] = SetFields(@, fields)]

(***************************************************************************)
(* The inputs: transcripts and the replies the extraction gateway can give.*)
(***************************************************************************)
Transcript == <<"N", "a", "t", "a", "l", "i", "e", " ", "(", "A", "g", "e", "n", "t", ")", ":",
                "h", "i", "\n", "u", "s", "e", "r", " ", ":", " ", "9", "8">>

Conversations == {<< >>, <<" ", "\n">>, Transcript}

PhoneReplies ==
    { Raises,
      NOT_FOUND,
      <<"+", "9", "1", " ", "9", "8", "7", "6", "5", "4", "3", "2", "1", "0">>,
      <<"9", "8", "7", "6", "5", "-", "4", "3", "2", "1", "0", "\n">>,
      <<"9", "1", "2", "3", "4", "5", "6", "7", "8", "9", "0">> }

EmailReplies ==
    { Raises,
      NOT_FOUND,
      <<"\"", "A", "@", "x", ".", "i", "n", ".", "\"">>,
      <<"a", "@", "x">> }

LanguageReplies ==
    { Raised, [languages |-> << >>],
      [languages |-> <<<<"E", "n", "g", "l", "i", "s", "h", " ">>, English, << >>>>] }

ProfileReplies ==
    { Raised,
      [name |-> JStr(<<"A", "n", "n">>), email |-> JStr(<<" ", "A", "@", "x", ".", "i", "n">>)],
      [name |-> JStr(<< >>), email |-> JNull] }

AnalyticsReplies ==
    { Raised,
      [country |-> JNull],
      [country |-> JStr(<<"I", "N">>), intent_level |-> JStr(<<"m", "o", "f", "u">>)],
      [country |-> JNull, intent_level |-> JStr(<<"h", "o", "t">>)] }

FollowUpReplies ==
    { Raised, [follow_up |-> JBool(TRUE)], [follow_up |-> JStr(<<"Y", "e", "s">>)],
      [follow_up |-> JBool(FALSE)] }

(***************************************************************************)
(* State.                                                                  *)
(***************************************************************************)
\* the requests, numbered in the order they are received
Requests == 1..MaxRequests

VARIABLES
    users,                \* db["users"]
    userAnalytics,        \* db["userAnalytics"]
    conversationHistory,  \* db["conversationHistory"]
    next_id,              \* the next ObjectId the store assigns
    pc,                   \* where each request handler stands
    local,                \* the local variables of each request handler
    clients,              \* the store connections each request holds open
    response,             \* what each handler returned to its caller
    gateway_called,       \* whether each request has called the gateway
    store_called,         \* whether each request has called the store
    gateway_errors,       \* the gateway functions whose except clause logged an error, by request
    log_kept,             \* whether the error log of this run is kept
    raw_input,            \* argument of the pure function under check
    normalized,           \* its result
    renormalized          \* the result of applying it to its own result

vars == <<users, userAnalytics, conversationHistory, next_id, pc, local, clients,
          response, gateway_called, store_called, gateway_errors, log_kept,
          raw_input, normalized, renormalized>>

store == <<users, userAnalytics, conversationHistory, next_id>>

fnVars == <<raw_input, normalized, renormalized>>

Unset == <<"<unset>">>

NoLocal ==
    [conversation |-> << >>, phone_number |-> None, email |-> None,
     languages_used |-> {}, user |-> NoDoc, user_doc |-> NoDoc,
     analytics_doc |-> NoDoc, existing_analytics |-> NoDoc]

NoResponse ==
    [status_code |-> 0, detail |-> "", user |-> NoDoc, analytics |-> NoDoc,
     conversation_history |-> NoDoc]

\* HTTPException(status_code, detail)
HTTPException(status_code, detail) ==
    [status_code |-> status_code, detail |-> detail, user |-> NoDoc, analytics |-> NoDoc,
     conversation_history |-> NoDoc]

\* a store as an earlier release of the service left it: a user known by email
\* only, whose analytics record has no follow_up field and carries a budget
LegacyUsers ==
    << [_id |-> 1, name |-> <<"L">>, email |-> <<"a", "@", "x", ".", "i", "n">>] >>

LegacyAnalytics ==
    << [_id |-> 2, user_id |-> 1, country |-> <<"I", "N">>, intent_level |-> TOFU,
        budget |-> <<"1", ",", "9", "0">>] >>

PipelineInit ==
    /\ \/ users = << >> /\ userAnalytics = << >> /\ next_id = 1
       \/ users = LegacyUsers /\ userAnalytics = LegacyAnalytics /\ next_id = 3
    /\ conversationHistory = << >>
    /\ pc = [p \in Requests |-> "idle"]
    /\ local = [p \in Requests |-> NoLocal]
    /\ clients = [p \in Requests |-> {}]
    /\ response = [p \in Requests |-> NoResponse]
    /\ gateway_called = [p \in Requests |-> FALSE]
    /\ store_called = [p \in Requests |-> FALSE]
    /\ gateway_errors = [p \in Requests |-> {}]

Init ==
    /\ PipelineInit
    /\ log_kept = FALSE
    /\ raw_input = Unset /\ normalized = Unset /\ renormalized = Unset

(***************************************************************************)
(* The request handler process_conversation (src/main.py 614-777), one     *)
(* action per segment of code that ends with a call to the store.  The     *)
(* gateway calls of a segment are part of its action; a store call may     *)
(* raise (ok = FALSE).                                                     *)
(***************************************************************************)
\* the handler returns resp or raises it; its local variables are gone, the
\* model keeps the two identifiers it extracted
Extracted(phone_number, email) ==
    [NoLocal EXCEPT !.phone_number = phone_number, !.email = email]

Return(p, resp) ==
    /\ pc' = [pc EXCEPT ![p] = "done"]
    /\ response' = [response EXCEPT ![p] = resp]
    /\ local' = [local EXCEPT ![p] = Extracted(@.phone_number, @.email)]

\* a request that has not returned has no response
Goto(p, label) ==
    /\ pc' = [pc EXCEPT ![p] = label]
    /\ UNCHANGED response

\* the request made g gateway calls and s store calls
Called(p, g, s) ==
    /\ gateway_called' = [gateway_called EXCEPT ![p] = @ \/ g > 0]
    /\ store_called' = [store_called EXCEPT ![p] = @ \/ s > 0]

\* the except clauses of the gateway functions named have logged an error
Logged(p, names) ==
    gateway_errors' = IF log_kept THEN [gateway_errors EXCEPT ![p] = @ \cup names]
                      ELSE gateway_errors

\* the gateway function named, if its call raised
IfRaised(raised, name) == IF raised THEN {name} ELSE {}

\* client.close() of the named connection
Close(p, name) == clients' = [clients EXCEPT ![p] = @ \ {name}]

\* a store call of process_conversation raised: lines 775-777
InternalServerError(p) ==
    /\ Return(p, HTTPException(500, "Internal server error"))
    /\ Called(p, 0, 1)
    /\ UNCHANGED <<store, clients>>

\* create_user_from_conversation returned None: lines 674-676
FailedToCreateUser(p, g, s, leaked) ==
    /\ Return(p, HTTPException(500, "Failed to create user"))
    /\ Called(p, g, s)
    /\ clients' = [clients EXCEPT ![p] = leaked]
    /\ UNCHANGED store

\* lines 621-625: a blank conversation is rejected
RejectBlank(p) ==
    /\ pc' = [pc EXCEPT ![p] = "done"]
    /\ response' = [response EXCEPT ![p] = HTTPException(400, "Conversation data is required")]
    /\ UNCHANGED <<local, gateway_called, store_called, clients, gateway_errors>>

\* (mutant) the request is rejected after the connection to the store was made
RejectNoIdentifierConnected(p, raised) ==
    /\ Logged(p, raised)
    /\ pc' = [pc EXCEPT ![p] = "done"]
    /\ response' = [response EXCEPT ![p] =
           HTTPException(400, "Could not extract phone number or email from conversation")]
    /\ Called(p, 2, 1)
    /\ clients' = [clients EXCEPT ![p] = {"process"}]
    /\ UNCHANGED local

\* lines 639-640: neither a phone number nor an email
RejectNoIdentifier(p, raised) ==
    /\ Logged(p, raised)
    /\ pc' = [pc EXCEPT ![p] = "done"]
    /\ response' = [response EXCEPT ![p] =
           HTTPException(400, "Could not extract phone number or email from conversation")]
    /\ Called(p, 2, 0)
    /\ UNCHANGED <<local, clients>>

\* lines 646-655: language detection and the connection to the store
DetectAndConnect(p, conversation, phone_number, email, extractions, raised) ==
    \E language_reply \in LanguageReplies, connected \in BOOLEAN :
        /\ Called(p, extractions + 1, 1)
        /\ Logged(p, raised \cup IfRaised(language_reply = Raised, "detect_languages"))
        /\ IF connected
           THEN /\ pc' = [pc EXCEPT ![p] = "find_user"]
                /\ local' = [local EXCEPT ![p] =
                       [Extracted(phone_number, email) EXCEPT
                           !.conversation = conversation,
                           !.languages_used = detect_languages(language_reply)]]
                /\ clients' = [clients EXCEPT ![p] = {"process"}]
                /\ UNCHANGED response
           ELSE /\ pc' = [pc EXCEPT ![p] = "done"]
                /\ response' = [response EXCEPT ![p] =
                                   HTTPException(500, "MongoDB connection failed")]
                /\ local' = [local EXCEPT ![p] = Extracted(phone_number, email)]
                /\ UNCHANGED clients

\* lines 621-655: validation, extraction, language detection, connection
Receive(p) ==
    /\ pc[p] = "idle"
    /\ \A q \in 1..(p - 1) : pc[q] # "idle"
    /\ \E conversation \in Conversations :
         IF conversation = << >> \/ Strip(conversation) = << >>
         THEN RejectBlank(p)
         ELSE \E phone_reply \in PhoneReplies :
                LET phone_number == extract_phone_number(phone_reply)
                    phone_raised == IfRaised(phone_reply = Raises, "extract_phone_number")
                IN  IF Truthy(phone_number)
                    THEN DetectAndConnect(p, conversation, phone_number, None, 1, phone_raised)
                    ELSE \E email_reply \in EmailReplies :
                           LET email == extract_email(email_reply)
                               raised == phone_raised \cup
                                           IfRaised(email_reply = Raises, "extract_email")
                           IN  IF ~Truthy(email)
                               THEN RejectNoIdentifier(p, raised)
                               ELSE DetectAndConnect(p, conversation, None, email, 2, raised)
    /\ UNCHANGED <<store, fnVars, log_kept>>

\* lines 657-667: the user the store has for the phone, else for the email
lookup_user(collection, phone_number, email) ==
    LET byPhone == IF Truthy(phone_number)
                   THEN find_one(collection, "phone_number", phone_db_format(phone_number))
                   ELSE NoDoc
    IN  IF byPhone = NoDoc /\ Truthy(email)
        THEN find_one(collection, "email", Strip(Lower(email)))
        ELSE byPhone

\* lines 657-678
FindUser(p) ==
    /\ pc[p] = "find_user"
    /\ \E ok \in BOOLEAN :
         IF ~ok THEN InternalServerError(p)
         ELSE LET user == lookup_user(users, local[p].phone_number, local[p].email)
              IN  /\ local' = [local EXCEPT ![p].user = user]
                  /\ Goto(p, IF user = NoDoc THEN "create_user" ELSE "find_analytics")
                  /\ Called(p, 0, 1)
                  /\ UNCHANGED <<store, clients>>
    /\ UNCHANGED <<fnVars, gateway_errors, log_kept>>

\* where create_user_from_conversation goes after a check found nothing
AfterPhoneCheck(user_doc) ==
    IF Truthy(user_doc.email) THEN "check_email" ELSE "insert_user"

\* create_user_from_conversation, lines 323-408: profile extraction, the
\* user document, the connection
CreateUser(p) ==
    /\ pc[p] = "create_user"
    /\ \E profile_reply \in ProfileReplies, connected \in BOOLEAN :
         /\ Logged(p, IfRaised(profile_reply = Raised, "create_user_from_conversation"))
         /\ IF profile_reply = Raised
            THEN FailedToCreateUser(p, 1, 0, {})
            ELSE IF ~connected
            THEN FailedToCreateUser(p, 1, 1, {})
            ELSE LET user_doc == user_doc_of(local[p].phone_number, local[p].email,
                                             profile_reply)
                 IN  /\ local' = [local EXCEPT ![p].user_doc = user_doc]
                     /\ Goto(p, IF Truthy(local[p].phone_number) THEN "check_phone"
                                ELSE AfterPhoneCheck(user_doc))
                     /\ Called(p, 1, 1)
                     /\ clients' = [clients EXCEPT ![p] = @ \cup {"create_user"}]
                     /\ UNCHANGED store
    /\ UNCHANGED <<fnVars, log_kept>>

\* a pre-insert check found the user: lines 414-417, 422-425
ReturnExisting(p, existing) ==
    /\ local' = [local EXCEPT ![p].user = existing]
    /\ Goto(p, "find_analytics")
    /\ Called(p, 0, 1)
    /\ Close(p, "create_user")
    /\ UNCHANGED store

\* lines 410-417: the check by phone before the insert
CheckPhone(p) ==
    /\ pc[p] = "check_phone"
    /\ \E ok \in BOOLEAN :
         IF ~ok THEN FailedToCreateUser(p, 0, 1, {"create_user"})
         ELSE LET existing == find_one(users, "phone_number", local[p].user_doc.phone_number)
              IN  IF existing # NoDoc THEN ReturnExisting(p, existing)
                  ELSE /\ Goto(p, AfterPhoneCheck(local[p].user_doc))
                       /\ Called(p, 0, 1)
                       /\ UNCHANGED <<store, local, clients>>
    /\ UNCHANGED <<fnVars, gateway_errors, log_kept>>

\* (mutant) the insert is made without the check by email
CheckEmailSkipped(p) ==
    /\ pc[p] = "check_email"
    /\ Goto(p, "insert_user")
    /\ UNCHANGED <<store, local, clients, gateway_called, store_called, fnVars,
                   gateway_errors, log_kept>>

\* lines 419-425: the check by email before the insert
CheckEmail(p) ==
    /\ pc[p] = "check_email"
    /\ \E ok \in BOOLEAN :
         IF ~ok THEN FailedToCreateUser(p, 0, 1, {"create_user"})
         ELSE LET existing == find_one(users, "email", local[p].user_doc.email)
              IN  IF existing # NoDoc THEN ReturnExisting(p, existing)
                  ELSE /\ Goto(p, "insert_user")
                       /\ Called(p, 0, 1)
                       /\ UNCHANGED <<store, local, clients>>
    /\ UNCHANGED <<fnVars, gateway_errors, log_kept>>

\* (mutant) the insert is made only when the store has no record with the
\* phone number or the email of the document
InsertUserIfAbsent(p) ==
    /\ pc[p] = "insert_user"
    /\ LET user_doc == local[p].user_doc
           existing == lookup_user(users, IF "phone_number" \in DOMAIN user_doc
                                          THEN SubSeq(user_doc.phone_number, 3,
                                                      Len(user_doc.phone_number))
                                          ELSE None,
                                   user_doc.email)
       IN  IF existing # NoDoc THEN ReturnExisting(p, existing)
           ELSE /\ users' = insert_one(users, user_doc, next_id)
                /\ next_id' = next_id + 1
                /\ local' = [local EXCEPT ![p].user = WithId(user_doc, next_id),
                                          ![p].user_doc = WithId(user_doc, next_id)]
                /\ Goto(p, "find_analytics")
                /\ Called(p, 0, 1)
                /\ Close(p, "create_user")
                /\ UNCHANGED <<userAnalytics, conversationHistory>>
    /\ UNCHANGED <<fnVars, gateway_errors, log_kept>>

\* lines 427-435: the insert
InsertUser(p) ==
    /\ pc[p] = "insert_user"
    /\ \E ok \in BOOLEAN :
         IF ~ok THEN FailedToCreateUser(p, 0, 1, {"create_user"})
         ELSE /\ users' = insert_one(users, local[p].user_doc, next_id)
              /\ next_id' = next_id + 1
              /\ local' = [local EXCEPT ![p].user = WithId(local[p].user_doc, next_id),
                                        ![p].user_doc = WithId(local[p].user_doc, next_id)]
              /\ Goto(p, "find_analytics")
              /\ Called(p, 0, 1)
              /\ Close(p, "create_user")
              /\ UNCHANGED <<userAnalytics, conversationHistory>>
    /\ UNCHANGED <<fnVars, gateway_errors, log_kept>>

\* (mutant) the user the request has inserted is deleted again when analytics
\* generation fails
FailedToGenerateAnalyticsRollback(p) ==
    /\ Return(p, HTTPException(500, "Failed to generate analytics"))
    /\ Close(p, "process")
    /\ Called(p, 1, 1)
    /\ users' = IF "_id" \in DOMAIN local[p].user_doc
                THEN SelectSeq(users, LAMBDA u : u._id # local[p].user._id)
                ELSE users
    /\ UNCHANGED <<userAnalytics, conversationHistory, next_id>>

\* generate_analytics returned None: lines 690-692
FailedToGenerateAnalytics(p) ==
    /\ Return(p, HTTPException(500, "Failed to generate analytics"))
    /\ Close(p, "process")
    /\ Called(p, 1, 0)
    /\ UNCHANGED store

\* lines 680-695: the user id, analytics generation, the lookup of the
\* analytics record
FindAnalytics(p) ==
    /\ pc[p] = "find_analytics"
    /\ \E analytics_reply \in AnalyticsReplies, follow_up_reply \in FollowUpReplies,
          ok \in BOOLEAN :
         LET user_id == Get(local[p].user, "_id", 0)
             analytics_doc == generate_analytics(analytics_reply, follow_up_reply, user_id)
         IN  IF user_id = 0
             THEN /\ Return(p, HTTPException(500, "User ID not found"))
                  /\ Close(p, "process")
                  /\ UNCHANGED <<store, gateway_called, store_called, gateway_errors>>
             ELSE IF analytics_doc = NoDoc
             THEN /\ FailedToGenerateAnalytics(p)
                  /\ Logged(p, {"generate_analytics"})
             ELSE /\ Logged(p, IfRaised(follow_up_reply = Raised, "detect_follow_up"))
                  /\ IF ~ok
                     THEN /\ Return(p, HTTPException(500, "Internal server error"))
                          /\ Called(p, 2, 1)
                          /\ UNCHANGED <<store, clients>>
                     ELSE LET existing_analytics ==
                                  find_one(userAnalytics, "user_id", user_id)
                          IN  /\ local' = [local EXCEPT
                                     ![p].analytics_doc = analytics_doc,
                                     ![p].existing_analytics = existing_analytics]
                              /\ Goto(p, IF existing_analytics # NoDoc
                                         THEN "update_analytics" ELSE "insert_analytics")
                              /\ Called(p, 2, 1)
                              /\ UNCHANGED <<store, clients>>
    /\ UNCHANGED <<fnVars, log_kept>>

\* lines 697-715: the record exists, update it
UpdateAnalytics(p) ==
    /\ pc[p] = "update_analytics"
    /\ \E follow_up_reply \in FollowUpReplies, ok \in BOOLEAN :
         LET legacy == "follow_up" \notin DOMAIN local[p].existing_analytics
             analytics_doc ==
                 IF legacy
                 THEN [local[p].analytics_doc EXCEPT !.follow_up = detect_follow_up(follow_up_reply)]
                 ELSE local[p].analytics_doc
         IN  /\ Logged(p, IfRaised(legacy /\ follow_up_reply = Raised, "detect_follow_up"))
             /\ IF ~ok
                THEN /\ Return(p, HTTPException(500, "Internal server error"))
                     /\ Called(p, IF legacy THEN 1 ELSE 0, 1)
                     /\ UNCHANGED <<store, clients>>
                ELSE /\ userAnalytics' = update_one(userAnalytics, "user_id",
                                                    analytics_doc.user_id, analytics_doc)
                     /\ local' = [local EXCEPT ![p].analytics_doc =
                                     WithId(analytics_doc, local[p].existing_analytics._id)]
                     /\ Goto(p, "insert_history")
                     /\ Called(p, IF legacy THEN 1 ELSE 0, 1)
                     /\ UNCHANGED <<users, conversationHistory, next_id, clients>>
    /\ UNCHANGED <<fnVars, log_kept>>

\* lines 716-721: no record, insert one
InsertAnalytics(p) ==
    /\ pc[p] = "insert_analytics"
    /\ \E ok \in BOOLEAN :
         IF ~ok THEN InternalServerError(p)
         ELSE /\ userAnalytics' = insert_one(userAnalytics, local[p].analytics_doc, next_id)
              /\ next_id' = next_id + 1
              /\ local' = [local EXCEPT ![p].analytics_doc = WithId(@, next_id)]
              /\ Goto(p, "insert_history")
              /\ Called(p, 0, 1)
              /\ UNCHANGED <<users, conversationHistory, clients>>
    /\ UNCHANGED <<fnVars, gateway_errors, log_kept>>

\* lines 747-769: the response of a successful request
success_response(user, analytics_doc, conversation_history_doc) ==
    [status_code |-> 200,
     detail |-> "Conversation processed successfully",
     user |-> [_id |-> ObjectIdStr(user._id),
               name |-> Get(user, "name", None),
               email |-> Get(user, "email", None),
               phone_number |-> Get(user, "phone_number", None)],
     analytics |-> [_id |-> ObjectIdStr(analytics_doc._id),
                    user_id |-> ObjectIdStr(analytics_doc.user_id),
                    country |-> analytics_doc.country,
                    intent_level |-> analytics_doc.intent_level,
                    follow_up |-> analytics_doc.follow_up],
     conversation_history |-> [_id |-> ObjectIdStr(conversation_history_doc._id),
                               user_id |-> ObjectIdStr(conversation_history_doc.user_id),
                               conversation |-> conversation_history_doc.conversation]]

\* lines 732-737: the history document (the timestamp is left out)
conversation_history_doc_of(user_id, conversation, languages_used) ==
    [user_id |-> user_id,
     conversation |-> normalize_conversation_tags(conversation),
     languages_used |-> languages_used]

\* (mutant) the history entry of the user is replaced when there is one
InsertHistoryUpsert(p) ==
    /\ pc[p] = "insert_history"
    /\ LET doc == conversation_history_doc_of(local[p].user._id, local[p].conversation,
                                              local[p].languages_used)
           old == Matching(conversationHistory, "user_id", local[p].user._id)
       IN  /\ conversationHistory' =
                 IF old = {} THEN insert_one(conversationHistory, doc, next_id)
                 ELSE [conversationHistory EXCEPT ![Min(old)] = WithId(doc, next_id)]
           /\ next_id' = next_id + 1
           /\ Return(p, success_response(local[p].user, local[p].analytics_doc,
                                         WithId(doc, next_id)))
           /\ Called(p, 0, 1)
           /\ Close(p, "process")
           /\ UNCHANGED <<users, userAnalytics>>
    /\ UNCHANGED <<fnVars, gateway_errors, log_kept>>

\* lines 723-771: the history entry and the response
InsertHistory(p) ==
    /\ pc[p] = "insert_history"
    /\ \E ok \in BOOLEAN :
         IF ~ok THEN InternalServerError(p)
         ELSE LET doc == conversation_history_doc_of(local[p].user._id, local[p].conversation,
                                                     local[p].languages_used)
              IN  /\ conversationHistory' = insert_one(conversationHistory, doc, next_id)
                  /\ next_id' = next_id + 1
                  /\ Return(p, success_response(local[p].user, local[p].analytics_doc,
                                                WithId(doc, next_id)))
                  /\ Called(p, 0, 1)
                  /\ Close(p, "process")
                  /\ UNCHANGED <<users, userAnalytics>>
    /\ UNCHANGED <<fnVars, gateway_errors, log_kept>>

\* requests are served one at a time: a request is received only when no
\* other request is in progress
ReceiveAlone(p) == (\A q \in Requests : pc[q] \in {"idle", "done"}) /\ Receive(p)

Next ==
    \E p \in Requests :
        \/ ReceiveAlone(p)
        \/ FindUser(p)
        \/ CreateUser(p)
        \/ CheckPhone(p)
        \/ CheckEmail(p)
        \/ InsertUser(p)
        \/ FindAnalytics(p)
        \/ UpdateAnalytics(p)
        \/ InsertAnalytics(p)
        \/ InsertHistory(p)

Spec == Init /\ [][Next]_vars

(***************************************************************************)
(* The same service in a run whose error log is kept: what the first       *)
(* request did can be compared with the gateway calls that failed for it.  *)
(***************************************************************************)
InitLogged ==
    /\ PipelineInit
    /\ log_kept = TRUE
    /\ raw_input = Unset /\ normalized = Unset /\ renormalized = Unset

\* the request whose log is compared
Single == {p \in Requests : p = 1}

NextLogged ==
    \E p \in Single :
        \/ Receive(p)
        \/ FindUser(p)
        \/ CreateUser(p)
        \/ CheckPhone(p)
        \/ CheckEmail(p)
        \/ InsertUser(p)
        \/ FindAnalytics(p)
        \/ UpdateAnalytics(p)
        \/ InsertAnalytics(p)
        \/ InsertHistory(p)

SpecLogged == InitLogged /\ [][NextLogged]_vars

(***************************************************************************)
(* The service under concurrent load: a request is received while another  *)
(* is in progress, and the handlers interleave at their store calls.  The  *)
(* handler is a coroutine without an await, so one process serves its      *)
(* requests one at a time (Spec); requests overlap when several processes  *)
(* of the service share the store.                                         *)
(***************************************************************************)
\* the two requests that overlap
Pair == {p \in Requests : p <= 2}

NextConcurrent ==
    \E p \in Pair :
        \/ Receive(p)
        \/ FindUser(p)
        \/ CreateUser(p)
        \/ CheckPhone(p)
        \/ CheckEmail(p)
        \/ InsertUser(p)
        \/ FindAnalytics(p)
        \/ UpdateAnalytics(p)
        \/ InsertAnalytics(p)
        \/ InsertHistory(p)

SpecConcurrent == Init /\ [][NextConcurrent]_vars

(***************************************************************************)
(* normalize_phone_number as a function of bounded inputs: digit strings   *)
(* over 9 and 1 of every length up to MaxPhoneLen, bare and written with a *)
(* plus sign and a space after the country code.                           *)
(***************************************************************************)
PhoneDigitStrings == UNION {[1..n -> {"9", "1"}] : n \in 0..MaxPhoneLen}

Written(d) ==
    IF Len(d) < 2 THEN <<"+">> \o d
    ELSE <<"+">> \o SubSeq(d, 1, 2) \o <<" ">> \o SubSeq(d, 3, Len(d))

PhoneInputs == PhoneDigitStrings \cup {Written(d) : d \in PhoneDigitStrings}

PhoneInit ==
    /\ PipelineInit
    /\ log_kept = FALSE
    /\ users = << >>
    /\ raw_input \in PhoneInputs
    /\ normalized = Unset
    /\ renormalized = Unset

NormalizePhone ==
    /\ normalized = Unset
    /\ normalized' = normalize_phone_number(raw_input)
    /\ UNCHANGED <<store, pc, local, clients, response, gateway_called, store_called,
                   gateway_errors, log_kept,
                   raw_input, renormalized>>

NormalizePhoneAgain ==
    /\ normalized # Unset
    /\ renormalized = Unset
    /\ renormalized' = normalize_phone_number(normalized)
    /\ UNCHANGED <<store, pc, local, clients, response, gateway_called, store_called,
                   gateway_errors, log_kept,
                   raw_input, normalized>>

PhoneNext == NormalizePhone \/ NormalizePhoneAgain

SpecPhone == PhoneInit /\ [][PhoneNext]_vars

(***************************************************************************)
(* normalize_conversation_tags as a function of bounded inputs: the texts  *)
(* made of at most MaxPieces pieces.                                       *)
(***************************************************************************)
Pieces ==
    { Natalie, Agent, <<"u", "s", "e", "r">>, <<"(", "A", "G", "E", "N", "T", ")">>,
      <<"(", "b", "o", "b", ")">>, <<"B", "o", "b">>, <<":">>, <<" ">>, <<"h", "i">>, <<"\n">> }

RECURSIVE Texts(_)
Texts(n) ==
    IF n = 0 THEN {<< >>}
    ELSE Texts(n - 1) \cup {t \o piece : t \in Texts(n - 1), piece \in Pieces}

TagsInit ==
    /\ PipelineInit
    /\ log_kept = FALSE
    /\ users = << >>
    /\ raw_input \in Texts(MaxPieces)
    /\ normalized = Unset
    /\ renormalized = Unset

NormalizeTags ==
    /\ normalized = Unset
    /\ normalized' = normalize_conversation_tags(raw_input)
    /\ UNCHANGED <<store, pc, local, clients, response, gateway_called, store_called,
                   gateway_errors, log_kept,
                   raw_input, renormalized>>

NormalizeTagsAgain ==
    /\ normalized # Unset
    /\ renormalized = Unset
    /\ renormalized' = normalize_conversation_tags(normalized)
    /\ UNCHANGED <<store, pc, local, clients, response, gateway_called, store_called,
                   gateway_errors, log_kept,
                   raw_input, normalized>>

TagsNext == NormalizeTags \/ NormalizeTagsAgain

SpecTags == TagsInit /\ [][TagsNext]_vars

(***************************************************************************)
(* Properties of the phone normaliser (SpecPhone).                         *)
(***************************************************************************)
AllDigits(s) == \A i \in 1..Len(s) : IsDigit(s[i])

HasDigit(s) == \E i \in 1..Len(s) : IsDigit(s[i])

\* C7: for every input string, the result of normalize_phone_number is
\* exactly 10 characters long and every character is a digit.
C7_TenDigits ==
    normalized # Unset => Len(normalized) = 10 /\ AllDigits(normalized)

\* C8: normalize_phone_number is idempotent on every input that contains a
\* digit: normalising the result again gives the result.
C8_Idempotent ==
    (renormalized # Unset /\ HasDigit(raw_input)) => renormalized = normalized

(***************************************************************************)
(* Properties of the tag normaliser (SpecTags).                            *)
(***************************************************************************)
NatalieLower == Lower(Natalie)

AgentLower == Lower(Agent)

UserLower == Lower(User)

\* what follows position c, without its leading whitespace
Remainder(line, c) == LStripChars(SubSeq(line, c + 1, Len(line)), Whitespace)

\* label is one of the four agent labels, written with exactly the spacing
\* of the claim: "Natalie (Agent)", "Agent (name)", "Agent", "Natalie"
LiteralAgentLabel(label) ==
    LET low == Lower(label)
    IN  \/ low = AgentLower
        \/ low = NatalieLower
        \/ low = NatalieLower \o <<" ", "(">> \o AgentLower \o <<")">>
        \/ /\ StartsWith(low, AgentLower \o <<" ", "(">>)
           /\ low[Len(low)] = ")"
           /\ \A i \in 1..(Len(low) - 1) : low[i] # ")"

\* the line as the claim rewrites it when the tag must stand directly before
\* the colon
LiteralLine(line) ==
    LET agentColons == {c \in 1..Len(line) :
                           line[c] = ":" /\ LiteralAgentLabel(SubSeq(line, 1, c - 1))}
        userColons == {c \in 1..Len(line) :
                          line[c] = ":" /\ Lower(SubSeq(line, 1, c - 1)) = UserLower}
    IN  IF agentColons # {} THEN AgentTag \o Remainder(line, Min(agentColons))
        ELSE IF userColons # {} THEN UserTag \o Remainder(line, Min(userColons))
             ELSE line

\* label is one of the four agent labels, with any whitespace between the
\* word and the parenthesis
SpacedAgentLabel(label) ==
    LET low == Lower(label)
        afterNatalie == LStripChars(SubSeq(low, Len(Natalie) + 1, Len(low)), Whitespace)
        afterAgent == LStripChars(SubSeq(low, Len(Agent) + 1, Len(low)), Whitespace)
    IN  \/ low = AgentLower
        \/ low = NatalieLower
        \/ StartsWith(low, NatalieLower) /\ afterNatalie = <<"(">> \o AgentLower \o <<")">>
        \/ /\ StartsWith(low, AgentLower)
           /\ Len(afterAgent) >= 2
           /\ afterAgent[1] = "("
           /\ afterAgent[Len(afterAgent)] = ")"
           /\ \A i \in 1..(Len(afterAgent) - 1) : afterAgent[i] # ")"

\* the line as the amended claim rewrites it: whitespace may stand between
\* the label and the colon
SpacedLine(line) ==
    LET agentColons == {c \in 1..Len(line) :
                           /\ line[c] = ":"
                           /\ SpacedAgentLabel(RStripChars(SubSeq(line, 1, c - 1), Whitespace))}
        userColons == {c \in 1..Len(line) :
                          /\ line[c] = ":"
                          /\ Lower(RStripChars(SubSeq(line, 1, c - 1), Whitespace)) = UserLower}
    IN  IF agentColons # {} THEN AgentTag \o Remainder(line, Min(agentColons))
        ELSE IF userColons # {} THEN UserTag \o Remainder(line, Min(userColons))
             ELSE line

InputLines == SplitOn(raw_input, "\n")

OutputLines == SplitOn(normalized, "\n")

\* C10 as stated: the number of lines is preserved; a line that starts
\* with "Natalie (Agent):", "Agent (name):", "Agent:" or "Natalie:" (in any
\* case) becomes "Agent: " and the remainder, otherwise a line that starts
\* with "User:" becomes "User: " and the remainder, and every other line is
\* returned unchanged.
C10_AsStated ==
    normalized # Unset =>
        /\ Len(OutputLines) = Len(InputLines)
        /\ \A i \in 1..Len(InputLines) : OutputLines[i] = LiteralLine(InputLines[i])

\* C10 amended: the same, where whitespace may stand between the label and
\* its parenthesis and between the label and the colon.
C10_LineByLine ==
    normalized # Unset =>
        /\ Len(OutputLines) = Len(InputLines)
        /\ \A i \in 1..Len(InputLines) : OutputLines[i] = SpacedLine(InputLines[i])

\* a two-line text whose first line has a spaced agent label and is rewritten
\* and whose second line is passed through
C10_Witness ==
    /\ raw_input = Agent \o <<" ">> \o <<":">> \o <<"\n">>
    /\ normalized = AgentTag \o <<"\n">>

\* C11: normalize_conversation_tags is idempotent: for every text t,
\* normalising the normalised text gives the normalised text.
C11_Idempotent ==
    renormalized # Unset => renormalized = normalized

\* a text the normaliser rewrites, normalised twice
C11_Witness ==
    /\ raw_input = Natalie \o <<"(", "A", "G", "E", "N", "T", ")">> \o <<":">> \o <<"h", "i">>
    /\ normalized = AgentTag \o <<"h", "i">>
    /\ renormalized = normalized

(***************************************************************************)
(* Properties of the pipeline when requests do not overlap (Spec).         *)
(***************************************************************************)
Succeeded(r) == pc[r] = "done" /\ response[r].status_code = 200

\* r is the request that returned last
LastDone(r) == pc[r] = "done" /\ \A q \in Requests : q > r => pc[q] = "idle"

HasPhone(u) == "phone_number" \in DOMAIN u

UsersWithPhone(phone) == Matching(users, "phone_number", phone)

AnalyticsOf(user_id) == Matching(userAnalytics, "user_id", user_id)

HistoryOf(user_id) == Matching(conversationHistory, "user_id", user_id)

\* the stored documents the response of r points to
UserIndexOf(r) == {i \in 1..Len(users) : ObjectIdStr(users[i]._id) = response[r].user._id}

\* C1: if two successful requests both extracted the same phone P, the later
\* one returns the same user identifier as the earlier one, and the users
\* collection never holds two records with phone_number "91"+P.
C1_SamePhoneSameUser ==
    /\ \A r1, r2 \in Requests :
          (/\ r1 < r2
           /\ Succeeded(r1) /\ Succeeded(r2)
           /\ Truthy(local[r1].phone_number)
           /\ local[r1].phone_number = local[r2].phone_number)
          => response[r2].user._id = response[r1].user._id
    /\ \A i \in 1..Len(users) :
          HasPhone(users[i]) => Cardinality(UsersWithPhone(users[i].phone_number)) <= 1

\* C2: no two user records have the same present phone_number, no two have
\* the same present email, and every user record has a phone_number or an
\* email.
C2_UniquePerKey ==
    /\ \A i, j \in 1..Len(users) :
          i # j =>
             /\ (HasPhone(users[i]) /\ HasPhone(users[j]))
                   => users[i].phone_number # users[j].phone_number
             /\ (Truthy(users[i].email) /\ Truthy(users[j].email))
                   => users[i].email # users[j].email
    /\ \A i \in 1..Len(users) : HasPhone(users[i]) \/ Truthy(users[i].email)

\* two requests were served for the same phone while another user, known by
\* email, is in the store
C2_Witness ==
    /\ Len(users) = 2
    /\ Succeeded(1) /\ Succeeded(2)
    /\ Truthy(local[1].phone_number) /\ Truthy(local[2].phone_number)
    /\ response[1].user._id = response[2].user._id
    /\ \E i \in 1..2 : HasPhone(users[i]) /\ ~Truthy(users[i].email)
    /\ \E i \in 1..2 : ~HasPhone(users[i]) /\ Truthy(users[i].email)

\* C3: when the request that returned last succeeded, had extracted phone P,
\* and no user other than the one it returned has phone_number "91"+P (so
\* none had it when the request arrived), the user it returned has
\* phone_number "91"+P, there is exactly one analytics record for that user,
\* and the history entry it returned belongs to that user and holds the
\* tag-normalized transcript.
C3_NewUserForNewPhone ==
    \A r \in Requests :
        (/\ LastDone(r) /\ Succeeded(r)
         /\ Truthy(local[r].phone_number)
         /\ \A i \in UsersWithPhone(phone_db_format(local[r].phone_number)) : i \in UserIndexOf(r))
        => /\ response[r].user.phone_number = phone_db_format(local[r].phone_number)
           /\ \A i \in UserIndexOf(r) :
                 /\ Cardinality(AnalyticsOf(users[i]._id)) = 1
                 /\ \E h \in HistoryOf(users[i]._id) :
                       /\ ObjectIdStr(conversationHistory[h]._id) = response[r].conversation_history._id
                       /\ conversationHistory[h].conversation = normalize_conversation_tags(Transcript)

\* C4: each user_id has at most one analytics record; an analytics record
\* never changes its identifier or its user; and when the request that
\* returned last succeeded, the record of its user has the identifier the
\* response names and holds the country, intent_level and follow_up of the
\* response (so it has a follow_up field).
C4_State ==
    /\ \A i, j \in 1..Len(userAnalytics) :
          i # j => userAnalytics[i].user_id # userAnalytics[j].user_id
    /\ \A r \in Requests :
          (LastDone(r) /\ Succeeded(r)) =>
             \A i \in UserIndexOf(r) :
                /\ AnalyticsOf(users[i]._id) # {}
                /\ \A a \in AnalyticsOf(users[i]._id) :
                      /\ ObjectIdStr(userAnalytics[a]._id) = response[r].analytics._id
                      /\ userAnalytics[a].country = response[r].analytics.country
                      /\ userAnalytics[a].intent_level = response[r].analytics.intent_level
                      /\ "follow_up" \in DOMAIN userAnalytics[a]
                      /\ userAnalytics[a].follow_up = response[r].analytics.follow_up

C4_Step ==
    /\ Len(userAnalytics') >= Len(userAnalytics)
    /\ \A i \in 1..Len(userAnalytics) :
          /\ userAnalytics'[i]._id = userAnalytics[i]._id
          /\ userAnalytics'[i].user_id = userAnalytics[i].user_id

C4_OneAnalyticsPerUser == []C4_State /\ [][C4_Step]_vars

\* the record an earlier release left without follow_up was updated by a
\* successful request: same identifier, new intent_level, a follow_up field
C4_Witness ==
    /\ Succeeded(1)
    /\ userAnalytics[1]._id = LegacyAnalytics[1]._id
    /\ userAnalytics[1].intent_level # LegacyAnalytics[1].intent_level
    /\ "follow_up" \in DOMAIN userAnalytics[1]
    /\ userAnalytics[1].follow_up

\* C5: the history entries of a user are as many as the successful requests
\* that returned that user, their identifiers are distinct, and no step
\* modifies or removes an entry.
C5_State ==
    /\ \A i, j \in 1..Len(conversationHistory) :
          i # j => conversationHistory[i]._id # conversationHistory[j]._id
    /\ \A u \in 1..Len(users) :
          Cardinality(HistoryOf(users[u]._id))
             = Cardinality({r \in Requests : Succeeded(r) /\ u \in UserIndexOf(r)})

C5_Step ==
    /\ Len(conversationHistory') >= Len(conversationHistory)
    /\ SubSeq(conversationHistory', 1, Len(conversationHistory)) = conversationHistory

C5_OneEntryPerSuccess == []C5_State /\ [][C5_Step]_vars

\* two successful requests for the same user, two entries
C5_Witness ==
    /\ Succeeded(1) /\ Succeeded(2)
    /\ response[1].user._id = response[2].user._id
    /\ Len(conversationHistory) = 2
    /\ conversationHistory[1].user_id = conversationHistory[2].user_id
    /\ conversationHistory[1]._id # conversationHistory[2]._id

\* C6: a request rejected for a blank conversation made no gateway call and
\* no store call; a request rejected because neither phone nor email was
\* derived made no store call, and the step that rejects a request is its
\* only step and leaves the three collections as they were.
C6_State ==
    \A r \in Requests :
        (pc[r] = "done" /\ response[r].status_code = 400) =>
            /\ ~store_called[r]
            /\ clients[r] = {}
            /\ response[r].detail = "Conversation data is required" => ~gateway_called[r]

C6_Step ==
    \A r \in Requests :
        (pc[r] # "done" /\ pc'[r] = "done" /\ response'[r].status_code = 400) =>
            /\ pc[r] = "idle"
            /\ UNCHANGED <<users, userAnalytics, conversationHistory>>

C6_RejectedWithoutWrites == []C6_State /\ [][C6_Step]_vars

\* both rejections happened, the second against a store that holds records
C6_Witness ==
    /\ users # << >>
    /\ pc[1] = "done" /\ response[1].detail = "Conversation data is required"
    /\ pc[2] = "done"
    /\ response[2].detail = "Could not extract phone number or email from conversation"
    /\ gateway_called[2] /\ ~store_called[2]

\* C9: every user record has no phone_number or a phone_number that is "91"
\* followed by 10 digits.
C9_PhoneFormat ==
    \A i \in 1..Len(users) :
        HasPhone(users[i]) =>
            /\ Len(users[i].phone_number) = 12
            /\ StartsWith(users[i].phone_number, <<"9", "1">>)
            /\ AllDigits(users[i].phone_number)

\* a user was created from a phone the gateway gave with a country code
C9_Witness ==
    /\ \E i \in 1..Len(users) :
          /\ HasPhone(users[i])
          /\ users[i].phone_number =
                <<"9", "1", "9", "8", "7", "6", "5", "4", "3", "2", "1", "0">>
    /\ Succeeded(1)
    /\ local[1].phone_number = <<"9", "8", "7", "6", "5", "4", "3", "2", "1", "0">>

IntentLevels == {TOFU, <<"M", "O", "F", "U">>, <<"B", "O", "F", "U">>}

\* C12: every analytics record the pipeline has written has an intent_level
\* among TOFU, MOFU and BOFU, whatever the analytics gateway replied.
C12_IntentLevelEnum ==
    \A i \in 1..Len(userAnalytics) : userAnalytics[i].intent_level \in IntentLevels

(***************************************************************************)
(* Properties of the pipeline when two requests overlap (SpecConcurrent).  *)
(***************************************************************************)
UsersWithEmail(email) == Matching(users, "email", email)

\* the check before the insert finds a record: the request takes it and
\* inserts nothing
C13_CheckNarrows ==
    \A p \in Requests :
        /\ (/\ pc[p] = "check_phone" /\ pc'[p] # "check_phone"
            /\ UsersWithPhone(local[p].user_doc.phone_number) # {})
              => (pc'[p] \in {"find_analytics", "done"} /\ users' = users)
        /\ (/\ pc[p] = "check_email" /\ pc'[p] # "check_email"
            /\ UsersWithEmail(local[p].user_doc.email) # {})
              => (pc'[p] \in {"find_analytics", "done"} /\ users' = users)

\* a request that has passed its checks inserts its document, whatever the
\* other request has inserted since the checks
C13_InsertUnconditional ==
    \A p \in Requests :
        (pc[p] = "insert_user" /\ pc'[p] = "find_analytics")
            => users' = Append(users, WithId(local[p].user_doc, next_id))

\* C13: the check before the insert narrows the window of the race between
\* two requests for the same phone (or email) and does not close it: a
\* request whose check finds a record inserts nothing, and a request whose
\* check found none inserts even when the other request has inserted the
\* same phone (or email) in between, so that two records share it.
C13_RaceWindow == [][C13_CheckNarrows /\ C13_InsertUnconditional]_vars

\* both requests extracted the same phone, found no user, passed the check
\* before the insert and inserted: two records, one phone
C13_Witness ==
    /\ Len(users) = 2
    /\ HasPhone(users[1]) /\ HasPhone(users[2])
    /\ users[1].phone_number = users[2].phone_number
    /\ users[1].phone_number = phone_db_format(local[1].phone_number)
    /\ local[1].phone_number = local[2].phone_number
    /\ pc[1] = "find_analytics" /\ pc[2] = "find_analytics"

\* the same for two requests that extracted the same email
C13_EmailDuplicated ==
    /\ Len(users) = 2
    /\ ~HasPhone(users[1]) /\ ~HasPhone(users[2])
    /\ users[1].email = users[2].email
    /\ local[1].email = users[1].email /\ local[2].email = users[1].email

\* the analytics records of the user a successful response names
AnalyticsOfResponse(r) == AnalyticsOf(response[r].user._id[2])

\* two successful requests for one user leave one analytics record
C14_State ==
    \A r1, r2 \in Requests :
        (r1 # r2 /\ Succeeded(r1) /\ Succeeded(r2) /\ response[r1].user._id = response[r2].user._id)
            => Cardinality(AnalyticsOfResponse(r1)) = 1

\* a request that writes analytics leaves the user with one record, which
\* holds the values the request derived
C14_Step ==
    \A p \in Requests :
        (pc[p] \in {"update_analytics", "insert_analytics"} /\ pc'[p] = "insert_history")
            => LET written == local'[p].analytics_doc
                   stored == {i \in 1..Len(userAnalytics') :
                                 userAnalytics'[i].user_id = written.user_id}
               IN  /\ Cardinality(stored) = 1
                   /\ \A i \in stored :
                         /\ userAnalytics'[i].country = written.country
                         /\ userAnalytics'[i].intent_level = written.intent_level
                         /\ userAnalytics'[i].follow_up = written.follow_up

\* C14: when two requests for the same user overlap, analytics is
\* last-write-wins: after both have finished the store holds a single
\* analytics record for the user, with the values of the request that wrote
\* last.
C14_LastWriteWins == []C14_State /\ [][C14_Step]_vars

(***************************************************************************)
(* Properties of error handling (Spec).                                    *)
(***************************************************************************)
\* C15: every store connection a request acquired, the one opened by
\* process_conversation and the one opened by create_user_from_conversation,
\* is closed when the request has returned or failed, on every exit path.
C15_ConnectionsClosed ==
    \A p \in Requests : pc[p] = "done" => clients[p] = {}

\* the request has inserted its user: InsertUser alone puts an _id in user_doc
NewUser(p) == "_id" \in DOMAIN local[p].user_doc

\* what the three collections hold for the user of p after the step
UserAfter(p) == {i \in 1..Len(users') : users'[i] = local[p].user}

AnalyticsAfter(p) ==
    {i \in 1..Len(userAnalytics') : userAnalytics'[i].user_id = local[p].user._id}

HistoryAfter(p) ==
    {i \in 1..Len(conversationHistory') : conversationHistory'[i].user_id = local[p].user._id}

\* analytics generation fails for a request that has inserted its user: the
\* request ends with an error, the user is still stored and has neither an
\* analytics record nor a history entry
C16_AnalyticsFails ==
    \A p \in Requests :
        (/\ pc[p] = "find_analytics" /\ NewUser(p)
         /\ response'[p].detail = "Failed to generate analytics")
            => /\ pc'[p] = "done" /\ response'[p].status_code = 500
               /\ UserAfter(p) # {}
               /\ AnalyticsAfter(p) = {} /\ HistoryAfter(p) = {}

\* the history write fails: the request ends with an error, user and
\* analytics record are still stored, and a user the request has inserted has
\* no history entry
C16_HistoryFails ==
    \A p \in Requests :
        (pc[p] = "insert_history" /\ pc'[p] = "done" /\ response'[p].status_code # 200)
            => /\ response'[p].status_code = 500
               /\ UserAfter(p) # {}
               /\ \E i \in AnalyticsAfter(p) :
                     userAnalytics'[i]._id = local[p].analytics_doc._id
               /\ NewUser(p) => HistoryAfter(p) = {}

\* C16: the pipeline is not atomic across its writes and nothing is rolled
\* back: when analytics generation fails after a new user was inserted, the
\* request aborts with an error and the user stays in the store without
\* analytics record and history entry; when the history write fails after the
\* analytics write, user and analytics record stay without a history entry.
C16_NoRollback == [][C16_AnalyticsFails /\ C16_HistoryFails]_vars

\* from the empty store: request 1 inserted its user and failed to generate
\* analytics, request 2 found the user, inserted the analytics record and
\* failed to write the history entry
C16_Witness ==
    /\ pc[1] = "done" /\ response[1].detail = "Failed to generate analytics"
    /\ pc[2] = "done" /\ response[2].detail = "Internal server error"
    /\ Len(users) = 1 /\ users[1]._id = 1
    /\ Len(userAnalytics) = 1 /\ userAnalytics[1].user_id = 1
    /\ conversationHistory = << >>

(***************************************************************************)
(* Properties of the analytics update (Spec).                              *)
(***************************************************************************)
DerivedFields == {"user_id", "country", "intent_level", "follow_up"}

\* p updates the analytics record of its user in this step
Updates(p) == pc[p] = "update_analytics" /\ pc'[p] = "insert_history"

\* the record update_one matches for the user of p: the first one stored
MatchedBy(p) == Min(Matching(userAnalytics, "user_id", local[p].user._id))

\* the record after the update holds the derived values under the
\* identifier it had
DerivedWritten(p, i) ==
    /\ userAnalytics'[i]._id = userAnalytics[i]._id
    /\ \A f \in DerivedFields : userAnalytics'[i][f] = local'[p].analytics_doc[f]

\* C17 as stated: when an analytics record exists for the user, the update
\* is a full overwrite: afterwards the stored record consists of exactly the
\* four derived fields and its original identifier, and no other field the
\* prior record carried is present.
C17_FullOverwrite ==
    [][\A p \in Requests :
          Updates(p) =>
              /\ DerivedWritten(p, MatchedBy(p))
              /\ DOMAIN userAnalytics'[MatchedBy(p)] = DerivedFields \cup {"_id"}]_vars

\* C17 amended: the update is a merge by field: afterwards the stored record
\* has its original identifier, the four derived fields with their new
\* values, and every other field the prior record carried, unchanged.
C17_FieldMerge ==
    [][\A p \in Requests :
          Updates(p) =>
              LET i == MatchedBy(p)
              IN  /\ DerivedWritten(p, i)
                  /\ DOMAIN userAnalytics'[i] = DOMAIN userAnalytics[i] \cup DerivedFields
                  /\ \A f \in DOMAIN userAnalytics[i] \ DerivedFields :
                        userAnalytics'[i][f] = userAnalytics[i][f]]_vars

\* the record of the earlier release, updated by request 1: it has gained
\* follow_up and new values, and still carries its budget
C17_Witness ==
    /\ Succeeded(1)
    /\ response[1].analytics._id = ObjectIdStr(LegacyAnalytics[1]._id)
    /\ Len(userAnalytics) = 1
    /\ DOMAIN userAnalytics[1] = DerivedFields \cup {"_id", "budget"}
    /\ userAnalytics[1].budget = LegacyAnalytics[1].budget
    /\ userAnalytics[1].intent_level # LegacyAnalytics[1].intent_level

(***************************************************************************)
(* Properties of the handling of gateway failures (SpecLogged).            *)
(***************************************************************************)
GatewayFunctions ==
    {"extract_phone_number", "extract_email", "detect_languages",
     "create_user_from_conversation", "detect_follow_up", "generate_analytics"}

\* the call of the gateway function fails in this step of p
Fails(p, name) == name \notin gateway_errors[p] /\ name \in gateway_errors'[p]

\* p ends in this step with the error
Aborts(p, status_code, detail) ==
    pc'[p] = "done" /\ response'[p] = HTTPException(status_code, detail)

\* p ends in this step because a store call raised
StoreRaises(p) ==
    \/ Aborts(p, 500, "MongoDB connection failed")
    \/ Aborts(p, 500, "Internal server error")

\* a failed language detection yields english and the request goes on to
\* the store
LanguageDefault(p) ==
    Fails(p, "detect_languages") =>
        \/ pc'[p] = "find_user" /\ local'[p].languages_used = {English}
        \/ StoreRaises(p)

\* a failed follow-up detection yields follow_up = false and the request
\* goes on to its analytics write
FollowUpDefault(p) ==
    Fails(p, "detect_follow_up") =>
        \/ /\ pc'[p] \in {"update_analytics", "insert_analytics", "insert_history"}
           /\ local'[p].analytics_doc.follow_up = FALSE
        \/ StoreRaises(p)

\* a failed extraction is an extraction that found nothing: without phone
\* number the email is tried, without both the request is rejected
ExtractionDefault(p) ==
    /\ Fails(p, "extract_phone_number") => local'[p].phone_number = None
    /\ Fails(p, "extract_email") =>
          /\ local'[p].email = None
          /\ Aborts(p, 400, "Could not extract phone number or email from conversation")

\* C18 as stated: a failure of any gateway call is replaced by a default and
\* never by itself aborts the request: the request goes on, or ends for
\* another reason (no identifier was found, a store call raised); a failed
\* language detection yields english, a failed follow-up detection false.
C18_NeverAborts ==
    [][\A p \in Requests :
          /\ LanguageDefault(p) /\ FollowUpDefault(p)
          /\ \A name \in GatewayFunctions :
                Fails(p, name) =>
                    \/ pc'[p] # "done"
                    \/ StoreRaises(p)
                    \/ Aborts(p, 400,
                              "Could not extract phone number or email from conversation")]_vars

\* C18 amended: a failure of phone extraction, email extraction, language
\* detection or follow-up detection is replaced by a default (nothing found,
\* english, false) and the request goes on as for that reply; a failure of
\* profile extraction or analytics extraction is caught too, and aborts the
\* request with status 500 before its next write.
C18_DefaultOrAbort ==
    [][\A p \in Requests :
          /\ LanguageDefault(p) /\ FollowUpDefault(p) /\ ExtractionDefault(p)
          /\ Fails(p, "create_user_from_conversation") =>
                (Aborts(p, 500, "Failed to create user") /\ UNCHANGED store)
          /\ Fails(p, "generate_analytics") =>
                (Aborts(p, 500, "Failed to generate analytics") /\ UNCHANGED store)]_vars

\* phone extraction, language detection and follow-up detection failed for
\* request 1, which succeeded by the email, with english and follow_up false
C18_Witness ==
    /\ Succeeded(1)
    /\ gateway_errors[1] = {"extract_phone_number", "detect_languages", "detect_follow_up"}
    /\ response[1].analytics.follow_up = FALSE
    /\ \E i \in 1..Len(conversationHistory) :
          /\ ObjectIdStr(conversationHistory[i]._id) = response[1].conversation_history._id
          /\ conversationHistory[i].languages_used = {English}

====
